---- MODULE Spec2Model ----
(***************************************************************************)
(* A model of the combinators of futures-concurrency:                      *)
(*   - Join for tuples        (src/src/future/join/tuple.rs)               *)
(*   - FirstOk for arrays     (src/src/first_ok/array.rs)                  *)
(*   - FromStream::drive      (src/src/concurrent_stream/                  *)
(*                             into_concurrent_iterator.rs)                *)
(* One combinator is constructed over n operations (leaf futures); the     *)
(* executor then issues drive steps (Future::poll) while the environment   *)
(* makes the operations able to complete, in any order.  Or a stream of    *)
(* items is driven into a consumer.                                        *)
(***************************************************************************)
EXTENDS Integers, Sequences, FiniteSets, TLC

\* Largest number of operations handed to a combinator (the source goes to 12).
MaxN == 3
\* Operations yield values (and errors) drawn from 1..MaxVal.
MaxVal == 2
\* The drive-step counter saturates at MaxPolls.
MaxPolls == 3
\* Largest number of items the stream driven by FromStream holds.
MaxItems == 3

\* len is a u32.  A wrapped-around u32 lies beyond the integers of the model
\* checker; WrappedU32 stands for every value a u32 takes after wrapping below
\* zero (the code only decrements len and tests it against 0).
WrappedU32 == 2147483647

VARIABLES
    engine,      \* what was constructed: "Join", "FirstOk" or "FromStream"
    n,           \* the number of operations it was constructed over
    ops,         \* the operations: [status, res] per index
    len,         \* Join: the counter `len`
    states,      \* Join: the tuple `states` of PollState
    outputs,     \* Join: the tuple `outputs` of MaybeUninit
    elems,       \* FirstOk: the array `elems` of MaybeDone
    ret,         \* what the last drive step returned
    polls,       \* number of drive steps issued so far (saturating)
    everPending, \* some drive step has returned Poll::Pending
    probed,      \* indices of the operations probed by the last drive step
    signalled,   \* indices of the operations that had become able to complete
                 \* (had signalled readiness) when the last drive step began
    reprobed,    \* indices of the operations probed after they had yielded
    order,       \* indices of the operations in the order they yielded
    reads,       \* Join: number of times `outputs` was read out (saturating)
    panicked,    \* a drive step panicked
    pc,          \* FromStream::drive: where the async fn is suspended
    items,       \* the items the stream `iter` produces, in order
    pos,         \* number of items `iter` has produced so far
    srcReady,    \* iter.next() would resolve if polled now
    progReady,   \* consumer.progress() would resolve if polled now
    exhausted,   \* iter.next() has resolved to None
    progAfterEnd, \* consumer.progress() has resolved after iter was exhausted
    progRounds,  \* rounds consumer.progress() won, saturating at MaxPolls
    held,        \* items pulled from iter whose consumer.send has not completed
    sendCalls,   \* the items passed to consumer.send, in call order
    accepted,    \* the consumer: the items whose send has completed
    finishCalls  \* number of calls of consumer.finish

streamVars == <<pc, items, pos, srcReady, progReady, exhausted, progAfterEnd,
                progRounds, held, sendCalls, accepted, finishCalls>>

vars == <<engine, n, ops, len, states, outputs, elems, ret, polls,
          everPending, probed, signalled, reprobed, order, reads, panicked,
          streamVars>>

Values == 1 .. MaxVal

\* Result<T, E> values an operation of FirstOk can yield.
Results == [ok : BOOLEAN, v : Values]

Min(a, b) == IF a < b THEN a ELSE b

(***************************************************************************)
(* The operations (leaf futures).  An operation is "running" until the     *)
(* environment lets it complete ("canyield"); the first probe after that   *)
(* returns Poll::Ready(res) and leaves it "finished".  A probe of a        *)
(* finished operation breaks the Future contract: it is recorded in        *)
(* `again` and yields nothing.                                             *)
(***************************************************************************)
PollOp(op) ==
    IF op.status = "canyield"
    THEN [kind |-> "Ready", out |-> op.res, again |-> FALSE,
          op |-> [op EXCEPT !.status = "finished"]]
    ELSE [kind |-> "Pending", out |-> op.res,
          again |-> (op.status = "finished"), op |-> op]

(***************************************************************************)
(* PollState (crate::utils::PollState)                                     *)
(***************************************************************************)
is_pending(s) == s = "Pending"

set_consumed == "Consumed"

(***************************************************************************)
(* MaybeUninit                                                             *)
(***************************************************************************)
MaybeUninit_uninit == [init |-> FALSE, v |-> 0]

MaybeUninit_new(x) == [init |-> TRUE, v |-> x]

\* u32 subtraction as the release build computes it (wrapping below zero).
SubU32(a, b) == IF a >= b THEN a - b ELSE WrappedU32

(***************************************************************************)
(* Join for tuples                                                         *)
(***************************************************************************)

\* JoinTrait::join: the state after construction over k operations.
join(k) ==
    [len     |-> k,
     outputs |-> [i \in 1 .. k |-> MaybeUninit_uninit],
     states  |-> [i \in 1 .. k |-> "Pending"]]

\* maybe_poll, storing the output in the slot of the completion rank.
maybe_poll_rank(idx, st) ==
    IF is_pending(st.states[idx])
    THEN LET r == PollOp(st.ops[idx])
             s1 == [st EXCEPT !.ops[idx] = r.op,
                              !.probed = @ \cup {idx},
                              !.reprobed = @ \cup (IF r.again THEN {idx} ELSE {})]
         IN  IF r.kind = "Ready"
             THEN [s1 EXCEPT !.outputs[Len(st.order) + 1] = MaybeUninit_new(r.out),
                             !.states[idx] = set_consumed,
                             !.len = SubU32(@, 1),
                             !.order = Append(@, idx)]
             ELSE s1
    ELSE st

\* maybe_poll, decrementing len whatever the probe returns.
maybe_poll_dec(idx, st) ==
    IF is_pending(st.states[idx])
    THEN LET r == PollOp(st.ops[idx])
             s1 == [st EXCEPT !.ops[idx] = r.op,
                              !.probed = @ \cup {idx},
                              !.reprobed = @ \cup (IF r.again THEN {idx} ELSE {}),
                              !.len = SubU32(@, 1)]
         IN  IF r.kind = "Ready"
             THEN [s1 EXCEPT !.outputs[idx] = MaybeUninit_new(r.out),
                             !.states[idx] = set_consumed,
                             !.order = Append(@, idx)]
             ELSE s1
    ELSE st

\* maybe_poll, never decrementing len.
maybe_poll_nodec(idx, st) ==
    IF is_pending(st.states[idx])
    THEN LET r == PollOp(st.ops[idx])
             s1 == [st EXCEPT !.ops[idx] = r.op,
                              !.probed = @ \cup {idx},
                              !.reprobed = @ \cup (IF r.again THEN {idx} ELSE {})]
         IN  IF r.kind = "Ready"
             THEN [s1 EXCEPT !.outputs[idx] = MaybeUninit_new(r.out),
                             !.states[idx] = set_consumed,
                             !.order = Append(@, idx)]
             ELSE s1
    ELSE st

\* maybe_poll without the is_pending guard.
maybe_poll_unguarded(idx, st) ==
    LET r == PollOp(st.ops[idx])
        s1 == [st EXCEPT !.ops[idx] = r.op,
                         !.probed = @ \cup {idx},
                         !.reprobed = @ \cup (IF r.again THEN {idx} ELSE {})]
    IN  IF r.kind = "Ready"
        THEN [s1 EXCEPT !.outputs[idx] = MaybeUninit_new(r.out),
                        !.states[idx] = set_consumed,
                        !.len = SubU32(@, 1),
                        !.order = Append(@, idx)]
        ELSE s1

\* maybe_poll!(idx, ...): probe operation idx if its slot is still pending.
maybe_poll(idx, st) ==
    IF is_pending(st.states[idx])
    THEN LET r == PollOp(st.ops[idx])
             s1 == [st EXCEPT !.ops[idx] = r.op,
                              !.probed = @ \cup {idx},
                              !.reprobed = @ \cup (IF r.again THEN {idx} ELSE {})]
         IN  IF r.kind = "Ready"
             THEN [s1 EXCEPT !.outputs[idx] = MaybeUninit_new(r.out),
                             !.states[idx] = set_consumed,
                             !.len = SubU32(@, 1),
                             !.order = Append(@, idx)]
             ELSE s1
    ELSE st

\* poll_all_pending! leaving out the last index.
RECURSIVE poll_all_pending_short(_, _)
poll_all_pending_short(idx, st) ==
    IF idx >= Len(st.states)
    THEN st
    ELSE CHOOSE r \in { poll_all_pending_short(idx + 1, s) : s \in {maybe_poll(idx, st)} } : TRUE

\* poll_all_pending!: maybe_poll for every index, in index order.  (The state
\* after maybe_poll is bound to s, so that it is computed once.)
RECURSIVE poll_all_pending(_, _)
poll_all_pending(idx, st) ==
    IF idx > Len(st.states)
    THEN st
    ELSE CHOOSE r \in { poll_all_pending(idx + 1, s) : s \in {maybe_poll(idx, st)} } : TRUE

\* Reading `outputs` as a tuple of initialised values: an uninitialised slot
\* reads as any bit pattern.
ReadOutputs(outs) ==
    { s \in [1 .. Len(outs) -> Values \cup {0}] :
        \A i \in 1 .. Len(outs) : outs[i].init => s[i] = outs[i].v }

\* The end of Join's poll with the test `len < 0`.
JoinReturn_lt(st) ==
    IF st.len < 0
    THEN { [kind |-> "Ready", out |-> o] : o \in ReadOutputs(st.outputs) }
    ELSE { [kind |-> "Pending"] }

\* The end of Join's poll: the values poll can return.
JoinReturn(st) ==
    IF st.len <= 0
    THEN { [kind |-> "Ready", out |-> o] : o \in ReadOutputs(st.outputs) }
    ELSE { [kind |-> "Pending"] }

\* Future::poll for Join: one drive step.
JoinPoll ==
    /\ engine = "Join"
    /\ ~panicked
    /\ \E st \in { poll_all_pending(1,
                    [len |-> len, states |-> states, outputs |-> outputs,
                     ops |-> ops, probed |-> {}, reprobed |-> reprobed,
                     order |-> order]) } :
           /\ len' = st.len
           /\ states' = st.states
           /\ outputs' = st.outputs
           /\ ops' = st.ops
           /\ probed' = st.probed
           /\ reprobed' = st.reprobed
           /\ order' = st.order
           /\ signalled' = { i \in 1 .. n : ops[i].status = "canyield" }
           /\ \E r \in JoinReturn(st) :
                /\ ret' = r
                /\ reads' = IF r.kind = "Ready" THEN Min(reads + 1, MaxPolls) ELSE reads
                /\ everPending' = (everPending \/ r.kind = "Pending")
    /\ polls' = Min(polls + 1, MaxPolls)
    /\ UNCHANGED <<engine, n, elems, panicked, streamVars>>

(***************************************************************************)
(* MaybeDone (crate::utils::MaybeDone): Future(f) | Done(output) | Gone     *)
(***************************************************************************)
NoOutput == [ok |-> TRUE, v |-> 0]

MaybeDone_new == [tag |-> "Future", out |-> NoOutput]

\* MaybeDone::poll: drives the inner future while it is there, is Ready(())
\* once the output is stored, and panics once the output was taken.
MaybeDone_poll(elem, op) ==
    IF elem.tag = "Future"
    THEN LET r == PollOp(op)
         IN  [kind |-> r.kind, inner |-> TRUE, again |-> r.again, op |-> r.op,
              elem |-> IF r.kind = "Ready"
                       THEN [tag |-> "Done", out |-> r.out]
                       ELSE elem]
    ELSE [kind |-> IF elem.tag = "Done" THEN "Ready" ELSE "Panic",
          inner |-> FALSE, again |-> FALSE, op |-> op, elem |-> elem]

\* MaybeDone::output: Some(&output) while Done, None otherwise.
MaybeDone_output(elem) ==
    [some |-> (elem.tag = "Done"), val |-> elem.out]

\* MaybeDone::take: Some(output) leaving Gone while Done, None otherwise.
MaybeDone_take(elem) ==
    IF elem.tag = "Done"
    THEN [some |-> TRUE, val |-> elem.out,
          elem |-> [tag |-> "Gone", out |-> NoOutput]]
    ELSE [some |-> FALSE, val |-> NoOutput, elem |-> elem]

(***************************************************************************)
(* FirstOk for arrays                                                      *)
(***************************************************************************)

\* FirstOkTrait::first_ok: the state after construction over k operations.
first_ok(k) == [elems |-> [i \in 1 .. k |-> MaybeDone_new]]

Pending == [kind |-> "Pending"]

ReadyOk(x) == [kind |-> "Ready", ok |-> TRUE, out |-> x]

ReadyErr(e) == [kind |-> "Ready", ok |-> FALSE, err |-> e]

\* The bookkeeping of one MaybeDone::poll on element i.
Polled(i, st, p) ==
    [st EXCEPT !.elems[i] = p.elem,
               !.ops[i] = p.op,
               !.probed = @ \cup (IF p.inner THEN {i} ELSE {}),
               !.reprobed = @ \cup (IF p.again THEN {i} ELSE {}),
               !.order = IF p.inner /\ p.kind = "Ready" THEN Append(@, i) ELSE @]

\* The body of the loop over elems, for element i.
ScanElem(i, st) ==
    LET p  == MaybeDone_poll(st.elems[i], st.ops[i])
        s1 == Polled(i, st, p)
        o  == MaybeDone_output(s1.elems[i])
    IN  IF p.kind = "Panic"
        THEN [s1 EXCEPT !.panicked = TRUE, !.returned = TRUE]
        ELSE IF p.kind = "Pending"
        THEN [s1 EXCEPT !.all_done = FALSE]
        ELSE IF o.some /\ ~o.val.ok
        THEN LET t == MaybeDone_take(s1.elems[i])
             IN  [s1 EXCEPT !.elems[i] = t.elem,
                            !.ret = ReadyErr(t.val.v),
                            !.returned = TRUE]
        ELSE s1

\* The loop over elems polling the remaining elements after an Err was found.
RECURSIVE FirstOkScan_full(_, _)
FirstOkScan_full(i, st) ==
    IF i > Len(st.elems)
    THEN st
    ELSE FirstOkScan_full(i + 1,
            IF st.returned
            THEN Polled(i, st, MaybeDone_poll(st.elems[i], st.ops[i]))
            ELSE ScanElem(i, st))

\* The loop over elems, in index order, left by the early return.
RECURSIVE FirstOkScan(_, _)
FirstOkScan(i, st) ==
    IF i > Len(st.elems) \/ st.returned
    THEN st
    ELSE FirstOkScan(i + 1, ScanElem(i, st))

\* The loop that moves every output into the result array:
\* take().unwrap().unwrap() panics on None and on Err.
RECURSIVE TakeAll(_, _, _)
TakeAll(i, st, out) ==
    IF i > Len(st.elems)
    THEN [st EXCEPT !.ret = ReadyOk(out), !.returned = TRUE]
    ELSE LET t == MaybeDone_take(st.elems[i])
         IN  IF ~t.some \/ ~t.val.ok
             THEN [st EXCEPT !.panicked = TRUE, !.returned = TRUE]
             ELSE TakeAll(i + 1, [st EXCEPT !.elems[i] = t.elem],
                          Append(out, t.val.v))

\* The body of the loop of a first-success poll, for element i: the first Ok
\* is returned at once, an Err is dropped and remembered.
RaceElem(i, st) ==
    IF st.elems[i].tag = "Gone"
    THEN st
    ELSE LET p  == MaybeDone_poll(st.elems[i], st.ops[i])
             s1 == Polled(i, st, p)
         IN  IF p.kind = "Pending"
             THEN [s1 EXCEPT !.all_done = FALSE]
             ELSE LET t == MaybeDone_take(s1.elems[i])
                  IN  IF t.val.ok
                      THEN [s1 EXCEPT !.elems[i] = t.elem,
                                      !.ret = ReadyOk(<<t.val.v>>),
                                      !.returned = TRUE]
                      ELSE [s1 EXCEPT !.elems[i] = t.elem,
                                      !.ret = ReadyErr(t.val.v)]

RECURSIVE RaceScan(_, _)
RaceScan(i, st) ==
    IF i > Len(st.elems) \/ st.returned
    THEN st
    ELSE RaceScan(i + 1, RaceElem(i, st))

\* A poll that returns the first Ok it observes and the last Err once every
\* operation has failed.
FirstOkStep_race(st) ==
    LET s1 == RaceScan(1, [st EXCEPT !.ret = IF st.ret.kind = "Ready" /\ ~st.ret.ok
                                              THEN st.ret ELSE Pending])
    IN  IF s1.returned \/ s1.all_done
        THEN s1
        ELSE [s1 EXCEPT !.ret = Pending]

\* The body of Future::poll for FirstOk.
FirstOkStep(st) ==
    LET s1 == FirstOkScan(1, st)
    IN  IF s1.returned
        THEN s1
        ELSE IF s1.all_done
        THEN TakeAll(1, s1, <<>>)
        ELSE [s1 EXCEPT !.ret = Pending]

\* Future::poll for FirstOk: one drive step.
FirstOkPoll ==
    /\ engine = "FirstOk"
    /\ ~panicked
    /\ \E st \in { FirstOkStep([elems |-> elems, ops |-> ops, all_done |-> TRUE,
                              probed |-> {}, reprobed |-> reprobed,
                              order |-> order, returned |-> FALSE,
                              ret |-> ret, panicked |-> FALSE]) } :
           /\ elems' = st.elems
           /\ ops' = st.ops
           /\ probed' = st.probed
           /\ reprobed' = st.reprobed
           /\ order' = st.order
           /\ signalled' = { i \in 1 .. n : ops[i].status = "canyield" }
           /\ panicked' = st.panicked
           /\ ret' = IF st.panicked THEN [kind |-> "Panic"] ELSE st.ret
           /\ everPending' = (everPending \/ (~st.panicked /\ st.ret.kind = "Pending"))
    /\ polls' = Min(polls + 1, MaxPolls)
    /\ UNCHANGED <<engine, n, len, states, outputs, reads, streamVars>>

(***************************************************************************)
(* The environment: operation i becomes able to complete.                  *)
(***************************************************************************)
OpBecomesReady(i) ==
    /\ i \in 1 .. n
    /\ ops[i].status = "running"
    /\ ops' = [ops EXCEPT ![i].status = "canyield"]
    /\ UNCHANGED <<engine, n, len, states, outputs, elems, ret, polls,
                   everPending, probed, signalled, reprobed, order, reads,
                   panicked, streamVars>>

(***************************************************************************)
(* FromStream::drive                                                       *)
(***************************************************************************)

\* No stream is driven.
NoStream ==
    /\ pc = "none"
    /\ items = <<>>
    /\ pos = 0
    /\ srcReady = FALSE
    /\ progReady = FALSE
    /\ exhausted = FALSE
    /\ progAfterEnd = FALSE
    /\ progRounds = 0
    /\ held = <<>>
    /\ sendCalls = <<>>
    /\ accepted = <<>>
    /\ finishCalls = 0

\* Stream::next on `iter`: Some(item) while items are left, None after them.
StreamNext(its, p) ==
    IF p < Len(its)
    THEN [some |-> TRUE, item |-> its[p + 1]]
    ELSE [some |-> FALSE, item |-> 0]

\* enum State
State_Progress == [tag |-> "Progress", some |-> FALSE, item |-> 0]

State_Item(opt) == [tag |-> "Item", some |-> opt.some, item |-> opt.item]

\* (a, b).race(): the futures that can win this round; none while both are
\* pending, either one when both are ready.
race(aReady, bReady) ==
    (IF aReady THEN {"a"} ELSE {}) \cup (IF bReady THEN {"b"} ELSE {})

\* Consumer::finish: the consumer's output over what it was sent.
Consumer_finish(acc) == acc

\* The match, handing over an item without a send.
Match_nosend(state) ==
    IF state.tag = "Progress" \/ state.some
    THEN [pc |-> "loop", send |-> <<>>, finish |-> 0]
    ELSE [pc |-> "finish", send |-> <<>>, finish |-> 1]

\* The match, leaving the loop when the consumer progressed.
Match_break(state) ==
    IF state.tag = "Progress"
    THEN [pc |-> "finish", send |-> <<>>, finish |-> 1]
    ELSE IF state.some
    THEN [pc |-> "send", send |-> <<state.item>>, finish |-> 0]
    ELSE [pc |-> "finish", send |-> <<>>, finish |-> 1]

\* The match, not awaiting the send.
Match_noawait(state) ==
    IF state.tag = "Progress"
    THEN [pc |-> "loop", send |-> <<>>, finish |-> 0]
    ELSE IF state.some
    THEN [pc |-> "loop", send |-> <<state.item>>, finish |-> 0]
    ELSE [pc |-> "finish", send |-> <<>>, finish |-> 1]

\* The match, going round the loop again when the stream has ended.
Match_nobreak(state) ==
    IF state.tag = "Progress"
    THEN [pc |-> "loop", send |-> <<>>, finish |-> 0]
    ELSE IF state.some
    THEN [pc |-> "send", send |-> <<state.item>>, finish |-> 0]
    ELSE [pc |-> "loop", send |-> <<>>, finish |-> 0]

\* The match on the race's result: where drive goes next, the item it calls
\* consumer.send with, and whether it calls consumer.finish (after the break).
Match(state) ==
    IF state.tag = "Progress"
    THEN [pc |-> "loop", send |-> <<>>, finish |-> 0]
    ELSE IF state.some
    THEN [pc |-> "send", send |-> <<state.item>>, finish |-> 0]
    ELSE [pc |-> "finish", send |-> <<>>, finish |-> 1]

\* What the match does to drive.
AfterRace(state) ==
    \E m \in { Match(state) } :
        /\ pc' = m.pc
        /\ sendCalls' = sendCalls \o m.send
        /\ held' = held \o m.send
        /\ finishCalls' = finishCalls + m.finish

\* A round of the loop in which consumer.progress() wins the race.
DriveProgress ==
    /\ engine = "FromStream"
    /\ pc = "loop"
    /\ "b" \in race(srcReady, progReady)
    /\ progReady' = FALSE
    /\ progAfterEnd' = (progAfterEnd \/ exhausted)
    /\ progRounds' = Min(progRounds + 1, MaxPolls)
    /\ AfterRace(State_Progress)
    /\ UNCHANGED <<items, pos, srcReady, exhausted, accepted, ret>>

\* A round of the loop in which iter.next() wins the race with an item.
DriveItem ==
    /\ engine = "FromStream"
    /\ pc = "loop"
    /\ "a" \in race(srcReady, progReady)
    /\ StreamNext(items, pos).some
    /\ pos' = pos + 1
    /\ srcReady' = FALSE
    /\ AfterRace(State_Item(StreamNext(items, pos)))
    /\ UNCHANGED <<items, progReady, exhausted, progAfterEnd, progRounds,
                   accepted, ret>>

\* A round of the loop in which iter.next() wins the race with None.
DriveEnd ==
    /\ engine = "FromStream"
    /\ pc = "loop"
    /\ "a" \in race(srcReady, progReady)
    /\ ~StreamNext(items, pos).some
    /\ exhausted' = TRUE
    /\ srcReady' = FALSE
    /\ AfterRace(State_Item(StreamNext(items, pos)))
    /\ UNCHANGED <<items, pos, progReady, progAfterEnd, progRounds, accepted,
                   ret>>

\* consumer.send(ready(item)).await resolves: the consumer has the item.
SendCompletes ==
    /\ engine = "FromStream"
    /\ pc = "send"
    /\ held # <<>>
    /\ accepted' = Append(accepted, Head(held))
    /\ held' = Tail(held)
    /\ pc' = "loop"
    /\ UNCHANGED <<items, pos, srcReady, progReady, exhausted, progAfterEnd,
                   progRounds, sendCalls, finishCalls, ret>>

\* consumer.finish().await resolves and drive returns its value.
FinishCompletes ==
    /\ engine = "FromStream"
    /\ pc = "finish"
    /\ ret' = [kind |-> "Ready", out |-> Consumer_finish(accepted)]
    /\ pc' = "done"
    /\ UNCHANGED <<items, pos, srcReady, progReady, exhausted, progAfterEnd,
                   progRounds, held, sendCalls, accepted, finishCalls>>

\* The environment: the stream has its next item, or its end, at hand.
SourceBecomesReady ==
    /\ engine = "FromStream"
    /\ ~srcReady
    /\ ~exhausted
    /\ srcReady' = TRUE
    /\ UNCHANGED <<pc, items, pos, progReady, exhausted, progAfterEnd,
                   progRounds, held, sendCalls, accepted, finishCalls, ret>>

\* The environment: the consumer has made progress to report.
ConsumerAdvances ==
    /\ engine = "FromStream"
    /\ ~progReady
    /\ pc # "done"
    /\ progReady' = TRUE
    /\ UNCHANGED <<pc, items, pos, srcReady, exhausted, progAfterEnd,
                   progRounds, held, sendCalls, accepted, finishCalls, ret>>

\* The variables of the combinators, which drive leaves alone.
DriveFrame ==
    UNCHANGED <<engine, n, ops, len, states, outputs, elems, polls, everPending,
                probed, signalled, reprobed, order, reads, panicked>>

StreamStep ==
    /\ \/ DriveProgress
       \/ DriveItem
       \/ DriveEnd
       \/ SendCompletes
       \/ FinishCompletes
       \/ SourceBecomesReady
       \/ ConsumerAdvances
    /\ DriveFrame

\* IntoConcurrentStream::co and the start of drive, over a stream of at most
\* MaxItems items.
InitStream ==
    /\ engine = "FromStream"
    /\ n = 0
    /\ ops = <<>>
    /\ len = 0
    /\ states = <<>>
    /\ outputs = <<>>
    /\ elems = <<>>
    /\ \E k \in 0 .. MaxItems : items \in [1 .. k -> Values]
    /\ pc = "loop"
    /\ pos = 0
    /\ srcReady = FALSE
    /\ progReady = FALSE
    /\ exhausted = FALSE
    /\ progAfterEnd = FALSE
    /\ progRounds = 0
    /\ held = <<>>
    /\ sendCalls = <<>>
    /\ accepted = <<>>
    /\ finishCalls = 0

InitJoin(k) ==
    /\ engine = "Join"
    /\ n = k
    /\ ops \in [1 .. k -> [status : {"running"}, res : Values]]
    /\ len = join(k).len
    /\ states = join(k).states
    /\ outputs = join(k).outputs
    /\ elems = <<>>
    /\ NoStream

InitFirstOk(k) ==
    /\ engine = "FirstOk"
    /\ n = k
    /\ ops \in [1 .. k -> [status : {"running"}, res : Results]]
    /\ elems = first_ok(k).elems
    /\ len = 0
    /\ states = <<>>
    /\ outputs = <<>>
    /\ NoStream

\* What no drive step has touched yet.
InitDrive ==
    /\ ret = [kind |-> "None"]
    /\ polls = 0
    /\ everPending = FALSE
    /\ probed = {}
    /\ signalled = {}
    /\ reprobed = {}
    /\ order = <<>>
    /\ reads = 0
    /\ panicked = FALSE

Init ==
    /\ \/ \E k \in 0 .. MaxN : InitJoin(k) \/ InitFirstOk(k)
       \/ InitStream
    /\ InitDrive

Next ==
    \/ JoinPoll
    \/ FirstOkPoll
    \/ \E i \in 1 .. MaxN : OpBecomesReady(i)
    \/ DriveProgress /\ DriveFrame
    \/ DriveItem /\ DriveFrame
    \/ DriveEnd /\ DriveFrame
    \/ SendCompletes /\ DriveFrame
    \/ FinishCompletes /\ DriveFrame
    \/ SourceBecomesReady /\ DriveFrame
    \/ ConsumerAdvances /\ DriveFrame

Spec == Init /\ [][Next]_vars

\* A Join alone, under an executor that keeps issuing drive steps, with
\* operations that all eventually become able to complete.
JoinInit ==
    /\ \E k \in 0 .. MaxN : InitJoin(k)
    /\ InitDrive

JoinNext ==
    \/ JoinPoll
    \/ \E i \in 1 .. MaxN : OpBecomesReady(i)

JoinFairSpec ==
    /\ JoinInit
    /\ [][JoinNext]_vars
    /\ WF_vars(JoinPoll)
    /\ WF_vars(\E i \in 1 .. MaxN : OpBecomesReady(i))

\* FromStream::drive alone, with a stream whose every pull resolves, a
\* consumer whose send and finish resolve, and a race that lets iter.next()
\* win once it stays ready.
StreamInit ==
    /\ InitStream
    /\ InitDrive

StreamFairSpec ==
    /\ StreamInit
    /\ [][StreamStep]_vars
    /\ WF_vars((DriveItem \/ DriveEnd) /\ DriveFrame)
    /\ WF_vars((SendCompletes \/ FinishCompletes) /\ DriveFrame)
    /\ WF_vars(SourceBecomesReady /\ DriveFrame)

(***************************************************************************)
(* Properties                                                              *)
(***************************************************************************)
Finished(i) == ops[i].status = "finished"

PendingSlots == { i \in 1 .. n : is_pending(states[i]) }

\* C1: whenever Join's drive step returns Ready, the tuple it returns holds at
\* each position i the value operation i yielded, whatever the order in which
\* the operations completed.
JoinResultInInputOrder ==
    (engine = "Join" /\ ret.kind = "Ready")
        => /\ Len(ret.out) = n
           /\ \A i \in 1 .. n : ret.out[i] = ops[i].res

\* Join returned Ready after the last operation completed first and the first
\* one later, the two yielding different values.
JoinOutOfOrderWitness ==
    /\ engine = "Join"
    /\ n >= 2
    /\ ret.kind = "Ready"
    /\ order[1] = n
    /\ order[Len(order)] = 1
    /\ ops[1].res # ops[n].res

\* C2: Join's drive step returns Ready only when every operation has yielded
\* its value; as long as a slot is pending after a step, that step returned
\* Pending and `outputs` has not been read.
JoinReadyOnlyWhenAllDone ==
    engine = "Join"
        => /\ ret.kind = "Ready"
                => \A i \in 1 .. n : Finished(i) /\ ~is_pending(states[i])
                                                 /\ outputs[i].init
           /\ (PendingSlots # {} /\ polls > 0)
                => ret.kind = "Pending" /\ reads = 0

\* A drive step returned Pending with exactly one of three slots still pending.
JoinPartialWitness ==
    /\ engine = "Join"
    /\ n = 3
    /\ ret.kind = "Pending"
    /\ Cardinality(PendingSlots) = 1

\* C3: under a scheduler that keeps issuing drive steps, with operations that
\* all eventually become able to complete, Join eventually returns Ready.
JoinEventuallyReady ==
    (engine = "Join") ~> (engine = "Join" /\ ret.kind = "Ready")

\* Join returned Ready over two or more operations after a step that returned
\* Pending.
JoinReadyAfterPendingWitness ==
    /\ engine = "Join"
    /\ n >= 2
    /\ everPending
    /\ ret.kind = "Ready"

\* C4: Join over zero operations never returns Pending, and its first drive
\* step returns Ready with the empty tuple.
JoinZeroReadyAtOnce ==
    (engine = "Join" /\ n = 0)
        => /\ ~everPending
           /\ polls >= 1 => (ret.kind = "Ready" /\ ret.out = <<>>)

\* The first drive step of a Join over zero operations has returned Ready.
JoinZeroWitness ==
    /\ engine = "Join"
    /\ n = 0
    /\ polls = 1
    /\ ret.kind = "Ready"

\* C5: no operation is probed after it has yielded its value, in any drive
\* step of either combinator.
NeverProbedAfterYield ==
    reprobed = {}

\* A later drive step probed the operations still running and left alone one
\* that had yielded in an earlier step.
SkippedFinishedWitness ==
    /\ polls >= 2
    /\ probed # {}
    /\ \E i \in 1 .. n : Finished(i) /\ i \notin probed
    /\ \E i \in probed : ~Finished(i)

ObservedOk == { i \in 1 .. n : Finished(i) /\ ops[i].res.ok }

ObservedErr == { i \in 1 .. n : Finished(i) /\ ~ops[i].res.ok }

\* C6: once FirstOk has observed an operation complete with Ok, the drive
\* step that observed it has returned Ready(Ok), other operations still
\* pending or not.
FirstOkReturnsAtFirstSuccess ==
    (engine = "FirstOk" /\ ~panicked /\ ObservedOk # {})
        => (ret.kind = "Ready" /\ ret.ok)

\* C7: when all n >= 1 operations of FirstOk fail, FirstOk returns Err only
\* once every operation has failed, and the error is that of the operation
\* observed to fail last.
FirstOkReturnsLastFailure ==
    (engine = "FirstOk" /\ n >= 1 /\ \A i \in 1 .. n : ~ops[i].res.ok)
        => (ret.kind = "Ready"
                => /\ ~ret.ok
                   /\ ObservedErr = 1 .. n
                   /\ ret.err = ops[order[Len(order)]].res.v)

\* C8: the first drive step of FirstOk over zero operations returns an error,
\* and no step returns Pending or a success.
FirstOkZeroIsError ==
    (engine = "FirstOk" /\ n = 0)
        => /\ ~everPending
           /\ polls >= 1 => (ret.kind = "Ready" /\ ~ret.ok)

\* C9: when every operation of FirstOk completes with Ok, a drive step that
\* returns Ready returns Ok with the array of the n values in input order, and
\* every operation has completed by then.
FirstOkAllOk ==
    (engine = "FirstOk" /\ \A i \in 1 .. n : ops[i].res.ok)
        => (ret.kind = "Ready"
                => /\ ret.ok
                   /\ ret.out = [i \in 1 .. n |-> ops[i].res.v]
                   /\ \A i \in 1 .. n : Finished(i))

\* FirstOk returned Ok over operations that completed in another order than
\* their indices, after a step that returned Pending.
FirstOkAllOkWitness ==
    /\ engine = "FirstOk"
    /\ n >= 2
    /\ everPending
    /\ ret.kind = "Ready"
    /\ ret.ok
    /\ order[1] = n
    /\ ops[1].res.v # ops[n].res.v

\* C10: FirstOk never returns Ok once it has observed an operation complete
\* with Err, and when exactly one operation completes with Err, a drive step
\* that returns Ready returns Err with that operation's error.
FirstOkOneErr ==
    engine = "FirstOk"
        => /\ ObservedErr # {} => ~(ret.kind = "Ready" /\ ret.ok)
           /\ \A j \in 1 .. n :
                (\A i \in 1 .. n : ops[i].res.ok <=> i # j)
                    => (ret.kind = "Ready" => ret = ReadyErr(ops[j].res.v))

\* FirstOk returned the error of its last operation after the others had
\* completed with Ok.
FirstOkOneErrWitness ==
    /\ engine = "FirstOk"
    /\ n >= 2
    /\ \A i \in 1 .. n : ops[i].res.ok <=> i # n
    /\ ObservedOk = 1 .. (n - 1)
    /\ ret = ReadyErr(ops[n].res.v)

\* C14: in a drive step of Join after the first, when exactly one operation has
\* signalled readiness since the previous step, that operation is the only one
\* probed.
JoinProbesOnlySignalled ==
    (engine = "Join" /\ polls >= 2 /\ Cardinality(signalled) = 1)
        => probed = signalled

\* C15: a slot of Join changes state only from Pending to Ready, when its
\* operation yields, and from Ready to Consumed.
JoinSlotStatesForward ==
    [][engine = "Join"
         => \A i \in 1 .. n :
              /\ states'[i] # states[i]
                    => \/ states[i] = "Pending" /\ states'[i] = "Ready"
                       \/ states[i] = "Ready" /\ states'[i] = "Consumed"
              /\ (~Finished(i) /\ ops'[i].status = "finished")
                    => states'[i] = "Ready"]_vars

\* Number of times slot i of `outputs` was written.
WritesOf(i) == Cardinality({ k \in 1 .. Len(order) : order[k] = i })

\* C16: whatever drive steps are issued on a Join, every slot of `outputs` is
\* written at most once and read at most once.
JoinOutputsWrittenAndReadOnce ==
    engine = "Join"
        => \A i \in 1 .. n : WritesOf(i) <= 1 /\ reads <= 1

\* C17: when a drive step of Join has returned Pending, every slot still
\* pending was probed in that step.
JoinPendingSlotsProbed ==
    (engine = "Join" /\ ret.kind = "Pending")
        => (PendingSlots # {} /\ PendingSlots \subseteq probed)

\* A second or later drive step returned Pending with one slot done and two
\* still pending.
JoinPendingProbedWitness ==
    /\ engine = "Join"
    /\ n = 3
    /\ polls >= 2
    /\ ret.kind = "Pending"
    /\ Cardinality(PendingSlots) = 2
    /\ probed = PendingSlots

\* C18: len is the number of pending slots: n less the operations that have
\* yielded, never below 0, and 0 exactly when no slot is pending.
JoinLenCountsPending ==
    engine = "Join"
        => /\ len = Cardinality(PendingSlots)
           /\ len = n - Len(order)
           /\ 0 <= len /\ len <= n
           /\ \A i \in 1 .. n : WritesOf(i) = IF is_pending(states[i]) THEN 0 ELSE 1

\* Two of three operations have yielded and len is 1.
JoinLenWitness ==
    /\ engine = "Join"
    /\ n = 3
    /\ Len(order) = 2
    /\ len = 1

\* C20: when a drive step of FirstOk has returned Err, the error is that of the
\* element the scan stopped at: it yielded Err in this step, no element before
\* it holds an Err, and no element after it was probed in this step, whether
\* or not elements before it are still pending.
FirstOkErrIsLowestIndex ==
    (engine = "FirstOk" /\ ret.kind = "Ready" /\ ~ret.ok)
        => /\ order # <<>>
           /\ LET j == order[Len(order)]
              IN  /\ ~ops[j].res.ok
                  /\ ret.err = ops[j].res.v
                  /\ elems[j].tag = "Gone"
                  /\ j \in probed
                  /\ \A i \in probed : i <= j
                  /\ \A i \in 1 .. (j - 1) :
                        \/ elems[i].tag = "Future"
                        \/ elems[i].tag = "Done" /\ elems[i].out.ok

\* FirstOk returned the error of its second operation while the first was
\* still pending, without probing the third, which was able to complete.
FirstOkErrWitness ==
    /\ engine = "FirstOk"
    /\ n = 3
    /\ ret.kind = "Ready"
    /\ ~ret.ok
    /\ order = <<2>>
    /\ elems[1].tag = "Future"
    /\ ops[3].status = "canyield"
    /\ probed = {1, 2}

\* C11: driving a finite stream of k items calls consumer.send exactly k times,
\* once per item of the stream and in the stream's order, all before the one
\* call of consumer.finish and none after it, whichever branch wins the rounds
\* of the race; drive returns what that finish returns.
DriveSendsEachItemThenFinishes ==
    engine = "FromStream"
        => /\ Len(sendCalls) <= Len(items)
           /\ sendCalls = SubSeq(items, 1, Len(sendCalls))
           /\ finishCalls <= 1
           /\ finishCalls = 1 => sendCalls = items
           /\ pc = "done"
                 => /\ finishCalls = 1
                    /\ sendCalls = items
                    /\ accepted = items
                    /\ ret = [kind |-> "Ready", out |-> Consumer_finish(accepted)]
           /\ pc # "done" => ret = [kind |-> "None"]

DriveDoneWitness ==
    /\ engine = "FromStream"
    /\ pc = "done"
    /\ items = <<1, 2, 1>>
    /\ progRounds >= 2
    /\ ret = [kind |-> "Ready", out |-> <<1, 2, 1>>]

DriveEventuallyReturns == (engine = "FromStream" /\ pc = "loop") ~> (pc = "done")

DriveReturnsAfterProgressWitness ==
    /\ engine = "FromStream"
    /\ pc = "done"
    /\ Len(items) = 3
    /\ progRounds = 3
    /\ progReady

\* C19: drive sends the items in the stream's order and holds at most one item
\* whose send has not completed; while it holds one, no step pulls from the
\* stream and no step resolves consumer.progress().
DriveHoldsOneItem ==
    [][engine = "FromStream"
         => /\ held # <<>>
                  => /\ pc = "send"
                     /\ pos' = pos
                     /\ progRounds' = progRounds
                     /\ progReady => progReady'
            /\ Len(held') <= 1
            /\ sendCalls' = SubSeq(items, 1, pos')
            /\ accepted' \o held' = sendCalls']_vars

DriveHoldingWitness ==
    /\ engine = "FromStream"
    /\ pc = "send"
    /\ held = <<2>>
    /\ accepted = <<1>>
    /\ pos = 2
    /\ Len(items) = 3
    /\ srcReady
    /\ progReady

====
